---- MODULE Spec2Model ----
(***************************************************************************)
(* A model of the CIDR prefix trie of index.js: ipToBinary, parseCIDR,     *)
(* Trie.insert, Trie.searchAll and the driver findAllIpsInTrie.            *)
(*                                                                         *)
(* JavaScript strings are TLA+ strings (sequences of characters).  A trie  *)
(* node is named by the string of child keys that leads to it from the     *)
(* root ("" is the root); the trie is the function from the nodes that     *)
(* exist to their data arrays.  A thrown Error is a result with ok = FALSE. *)
(***************************************************************************)
EXTENDS Integers, Sequences, FiniteSets, TLC

VARIABLES
    trie,      \* the Trie object: [node path -> node.data]
    log,       \* history: the (cidr, data) pairs whose insert returned normally
    lastOp,    \* the last call made and how it ended
    ipRanges   \* the ipRanges argument of the last findAllIpsInTrie call

vars == <<trie, log, lastOp, ipRanges>>

-----------------------------------------------------------------------------
(* Bounds of the model *)

MaxInserts == 2     \* successful inserts into one trie
MaxRanges == 3      \* length of the ipRanges array given to the driver

(* Program constants *)

OctetCount == 4     \* octets.length !== 4
OctetMax == 255     \* num > 255
OctetWidth == 8     \* padStart(8, '0')
Radix == 2          \* toString(2)
CidrParts == 2      \* parts.length !== 2
MaxPrefix == 32     \* prefixLength > 32
AddrBits == 32      \* for (let i = 0; i < 32; i++)

-----------------------------------------------------------------------------
(* Inputs of the calls *)

CidrInputs ==
    { "0.0.0.0/0", "10.0.0.0/8", "10.1.2.3/8", "10.1.0.0/16",
      "10..0.0/8", "10.0.0.0/", "10.0.0.0/7.5",
      "10.0.0.0/33", "10.0.0.0", "10.0.0/8", "10.0.0.0/z", "10.0.0.0/-1" }

IpInputs ==
    { "10.1.2.3", "10.0.0.0", "11.0.0.0", "10..0.0", "10.0.0", "256.0.0.0",
      "10.0.0.z" }

DataInputs == {"A", "B"}
AnyData == CHOOSE data \in DataInputs : TRUE   \* a throwing insert reads no data

\* a field of a range object that is absent reads as undefined
undefined == "<undefined>"

RangeInputs ==
    { [ipRange |-> "10.0.0.0/8", description |-> "A", number |-> "13335",
       country |-> "AU", status |-> "active"],
      [ipRange |-> "10.1.0.0/16", description |-> "B", number |-> undefined,
       country |-> "", status |-> undefined],
      [ipRange |-> "10.0.0.0/33", description |-> "C", number |-> "1",
       country |-> "", status |-> ""],
      [ipRange |-> "10..0.0/8", description |-> "D", number |-> undefined,
       country |-> "KR", status |-> ""] }

RangeLists == UNION {[1..n -> RangeInputs] : n \in 0..MaxRanges}

-----------------------------------------------------------------------------
(* String helpers: String.prototype.split with a one-character separator.  *)

CharAt(s, i) == SubSeq(s, i, i)

\* the fields of s from position i on; the current field starts at `start`
RECURSIVE SplitFrom(_, _, _, _)
SplitFrom(s, sep, start, i) ==
    IF i > Len(s) THEN <<SubSeq(s, start, Len(s))>>
    ELSE IF CharAt(s, i) = sep
         THEN <<SubSeq(s, start, i - 1)>> \o SplitFrom(s, sep, i + 1, i + 1)
         ELSE SplitFrom(s, sep, start, i + 1)

split(s, sep) == SplitFrom(s, sep, 1, 1)

-----------------------------------------------------------------------------
(* Number(string), for strings over digits, '.', '+', '-', ' ' and letters  *)
(* that start no numeric literal: white space is trimmed, the empty string  *)
(* is 0, then an optional sign and a decimal literal with an optional       *)
(* fraction; anything else is NaN.  A number is num/den, den a power of 10. *)

Digits == {"0", "1", "2", "3", "4", "5", "6", "7", "8", "9"}

DigitValue(c) ==
    CASE c = "0" -> 0 [] c = "1" -> 1 [] c = "2" -> 2 [] c = "3" -> 3
      [] c = "4" -> 4 [] c = "5" -> 5 [] c = "6" -> 6 [] c = "7" -> 7
      [] c = "8" -> 8 [] c = "9" -> 9

RECURSIVE TrimLeft(_)
TrimLeft(s) ==
    IF Len(s) > 0 /\ CharAt(s, 1) = " " THEN TrimLeft(SubSeq(s, 2, Len(s))) ELSE s

RECURSIVE TrimRight(_)
TrimRight(s) ==
    IF Len(s) > 0 /\ CharAt(s, Len(s)) = " "
    THEN TrimRight(SubSeq(s, 1, Len(s) - 1)) ELSE s

NaN == [nan |-> TRUE, num |-> 0, den |-> 1]

\* the digits of s from position i on, after `seen` fraction digits
RECURSIVE ScanDecimal(_, _, _, _, _, _)
ScanDecimal(s, i, num, den, inFraction, nDigits) ==
    IF i > Len(s)
    THEN IF nDigits = 0 THEN NaN ELSE [nan |-> FALSE, num |-> num, den |-> den]
    ELSE LET c == CharAt(s, i) IN
         IF c \in Digits
         THEN ScanDecimal(s, i + 1, 10 * num + DigitValue(c),
                          IF inFraction THEN 10 * den ELSE den,
                          inFraction, nDigits + 1)
         ELSE IF c = "." /\ ~inFraction
              THEN ScanDecimal(s, i + 1, num, den, TRUE, nDigits)
              ELSE NaN

Number(str) ==
    LET literal(t) ==
            LET signed(n) ==
                    IF n.nan THEN NaN
                    ELSE IF CharAt(t, 1) = "-"
                         THEN [nan |-> FALSE, num |-> 0 - n.num, den |-> n.den]
                         ELSE n
            IN IF Len(t) = 0 THEN [nan |-> FALSE, num |-> 0, den |-> 1]
               ELSE signed(ScanDecimal(IF CharAt(t, 1) \in {"+", "-"}
                                       THEN SubSeq(t, 2, Len(t)) ELSE t,
                                       1, 0, 1, FALSE, 0))
    IN literal(TrimRight(TrimLeft(str)))

isNaN(n) == n.nan
NumLess(n, k) == n.num < k * n.den        \* n < k, k an integer
NumGreater(n, k) == n.num > k * n.den     \* n > k, k an integer

-----------------------------------------------------------------------------
(* num.toString(2).padStart(8, '0') for an integer num >= 0 *)

RECURSIVE toString2(_)
toString2(n) ==
    IF n < Radix THEN (IF n = 0 THEN "0" ELSE "1")
    ELSE toString2(n \div Radix) \o (IF n % Radix = 0 THEN "0" ELSE "1")

RECURSIVE padStart(_, _, _)
padStart(s, width, fill) ==
    IF Len(s) >= width THEN s ELSE padStart(fill \o s, width, fill)

-----------------------------------------------------------------------------
(* ipToBinary(ip) *)

Thrown(msg) == [ok |-> FALSE, value |-> "", error |-> msg]
Returned(v) == [ok |-> TRUE, value |-> v, error |-> ""]

\* the callback of octets.map: the octet's 8 binary digits, or a thrown Error.
\* An octet holds no '.', so a Number(octet) that passes the test is an integer.
octetToBinary(octet) ==
    LET checked(num) ==
            IF isNaN(num) \/ NumLess(num, 0) \/ NumGreater(num, OctetMax)
            THEN Thrown("Invalid octet in IP address")
            ELSE Returned(padStart(toString2(num.num), OctetWidth, "0"))
    IN checked(Number(octet))

RECURSIVE join(_, _)
join(mapped, i) ==
    IF i > Len(mapped) THEN "" ELSE mapped[i].value \o join(mapped, i + 1)

ipToBinaryOf(ip) ==
    LET joined(mapped) ==
            IF \E i \in 1..Len(mapped) : ~mapped[i].ok
            THEN Thrown("Invalid octet in IP address")
            ELSE Returned(join(mapped, 1))
        converted(octets) ==
            IF Len(octets) # OctetCount
            THEN Thrown("Invalid IP address format")
            ELSE joined([i \in 1..Len(octets) |-> octetToBinary(octets[i])])
    IN converted(split(ip, "."))

\* ipToBinary is a pure function of its argument: its value on the input
\* strings is computed once.
AddressInputs == IpInputs \cup {split(c, "/")[1] : c \in CidrInputs}

ipToBinaryOfInputs == [ip \in AddressInputs |-> ipToBinaryOf(ip)]

ipToBinary(ip) ==
    IF ip \in AddressInputs THEN ipToBinaryOfInputs[ip] ELSE ipToBinaryOf(ip)

-----------------------------------------------------------------------------
(* parseCIDR(cidr) *)

NoCidr == [ok |-> FALSE, ip |-> "", prefixLength |-> NaN, error |-> ""]

parseCIDROf(cidr) ==
    LET validate(ip, prefixLength, validated) ==
            IF ~validated.ok
            THEN [NoCidr EXCEPT !.error = validated.error]
            ELSE [ok |-> TRUE, ip |-> ip, prefixLength |-> prefixLength,
                  error |-> ""]
        check(ip, prefixLength) ==
            IF isNaN(prefixLength) \/ NumLess(prefixLength, 0)
                                   \/ NumGreater(prefixLength, MaxPrefix)
            THEN [NoCidr EXCEPT !.error = "Invalid prefix length in CIDR"]
            ELSE validate(ip, prefixLength, ipToBinary(ip))
        parse(parts) ==
            IF Len(parts) # CidrParts
            THEN [NoCidr EXCEPT !.error = "Invalid CIDR format"]
            ELSE check(parts[1], Number(parts[2]))
    IN parse(split(cidr, "/"))

\* parseCIDR is a pure function of its argument: its value on the input
\* strings is computed once.
parseCIDROfInputs == [c \in CidrInputs |-> parseCIDROf(c)]

parseCIDR(cidr) ==
    IF cidr \in CidrInputs THEN parseCIDROfInputs[cidr] ELSE parseCIDROf(cidr)

-----------------------------------------------------------------------------
(* TrieNode, Trie *)

NewTrieNode == <<>>                       \* this.data = []; this.children = {}
NewTrie == [n \in {""} |-> NewTrieNode]   \* this.root = new TrieNode()

hasChild(t, child) == child \in DOMAIN t          \* node.children[bit]

addChild(t, child) ==                             \* node.children[bit] = new TrieNode()
    [n \in DOMAIN t \cup {child} |-> IF n = child THEN NewTrieNode ELSE t[n]]

\* insert's loop with the bound off by one: i < prefixLength - 1
RECURSIVE insertLoopOneLevelShort(_, _, _, _, _, _)
insertLoopOneLevelShort(t, node, binaryIp, i, prefixLength, data) ==
    IF NumGreater(prefixLength, i + 1)
    THEN LET child == node \o CharAt(binaryIp, i + 1) IN
         IF ~hasChild(t, child)
         THEN insertLoopOneLevelShort(addChild(t, child), child, binaryIp, i + 1,
                                     prefixLength, data)
         ELSE insertLoopOneLevelShort(t, child, binaryIp, i + 1, prefixLength, data)
    ELSE [t EXCEPT ![node] = Append(@, data)]

\* insert's loop over the whole address: i < binaryIp.length
RECURSIVE insertLoopWholeAddress(_, _, _, _, _, _)
insertLoopWholeAddress(t, node, binaryIp, i, prefixLength, data) ==
    IF i < Len(binaryIp)
    THEN LET child == node \o CharAt(binaryIp, i + 1) IN
         IF ~hasChild(t, child)
         THEN insertLoopWholeAddress(addChild(t, child), child, binaryIp, i + 1,
                                    prefixLength, data)
         ELSE insertLoopWholeAddress(t, child, binaryIp, i + 1, prefixLength, data)
    ELSE [t EXCEPT ![node] = Append(@, data)]

\* insert's loop without the test for an existing child: every step stores
\* a new TrieNode, and the subtree that was there is lost
replaceChild(t, child) ==
    LET kept == {n \in DOMAIN t :
                    ~(Len(child) <= Len(n) /\ SubSeq(n, 1, Len(child)) = child)}
    IN [n \in kept \cup {child} |-> IF n = child THEN NewTrieNode ELSE t[n]]

RECURSIVE insertLoopReplacingChildren(_, _, _, _, _, _)
insertLoopReplacingChildren(t, node, binaryIp, i, prefixLength, data) ==
    IF NumGreater(prefixLength, i)
    THEN LET child == node \o CharAt(binaryIp, i + 1) IN
         insertLoopReplacingChildren(replaceChild(t, child), child, binaryIp,
                                     i + 1, prefixLength, data)
    ELSE [t EXCEPT ![node] = Append(@, data)]

\* the loop of insert from index i on (i < prefixLength), then
\* node.data.push(data)
RECURSIVE insertLoop(_, _, _, _, _, _)
insertLoop(t, node, binaryIp, i, prefixLength, data) ==
    IF NumGreater(prefixLength, i)
    THEN LET child == node \o CharAt(binaryIp, i + 1) IN
         IF ~hasChild(t, child)
         THEN insertLoop(addChild(t, child), child, binaryIp, i + 1,
                        prefixLength, data)
         ELSE insertLoop(t, child, binaryIp, i + 1, prefixLength, data)
    ELSE [t EXCEPT ![node] = Append(@, data)]

insert(t, cidr, data) ==
    LET withParsed(parsed) ==
            IF ~parsed.ok THEN [ok |-> FALSE, trie |-> t, error |-> parsed.error]
            ELSE [ok |-> TRUE,
                  trie |-> insertLoop(t, "", ipToBinary(parsed.ip).value, 0,
                                      parsed.prefixLength, data),
                  error |-> ""]
    IN withParsed(parseCIDR(cidr))

\* the loop of searchAll from index i on: what it pushes onto matches
RECURSIVE searchLoop(_, _, _, _)
searchLoop(t, node, binaryIp, i) ==
    IF i < AddrBits
    THEN LET child == node \o CharAt(binaryIp, i + 1) IN
         IF hasChild(t, child)
         THEN (IF Len(t[child]) > 0 THEN t[child] ELSE <<>>)
              \o searchLoop(t, child, binaryIp, i + 1)
         ELSE <<>>
    ELSE <<>>

searchAll(t, ip) ==
    LET search(b) ==
            IF ~b.ok THEN [ok |-> FALSE, matches |-> <<>>, error |-> b.error]
            ELSE [ok |-> TRUE, matches |-> searchLoop(t, "", b.value, 0),
                  error |-> ""]
    IN search(ipToBinary(ip))

-----------------------------------------------------------------------------
(* findAllIpsInTrie(ipRanges, ipToFind) *)

orDefault(v, d) == IF v = undefined \/ v = "" THEN d ELSE v      \* v || d

rangeData(rangeObj) ==
    [ipRange |-> rangeObj.ipRange,
     description |-> rangeObj.description,
     number |-> orDefault(rangeObj.number, ""),
     country |-> orDefault(rangeObj.country, ""),
     status |-> orDefault(rangeObj.status, "none")]

\* ipRanges.forEach from index i on: each insert in its own try/catch.
\* The result is the trie and the pairs whose insert returned normally.
RECURSIVE populate(_, _, _, _)
populate(t, inserted, ranges, i) ==
    IF i > Len(ranges) THEN [trie |-> t, inserted |-> inserted]
    ELSE LET rangeObj == ranges[i]
             after(r) ==
                 IF r.ok
                 THEN populate(r.trie,
                               Append(inserted, [cidr |-> rangeObj.ipRange,
                                                 data |-> rangeData(rangeObj)]),
                               ranges, i + 1)
                 ELSE populate(t, inserted, ranges, i + 1)
         IN after(insert(t, rangeObj.ipRange, rangeData(rangeObj)))

findAllIpsInTrie(ranges, ipToFind) ==
    LET caught(results) == IF results.ok THEN results.matches ELSE <<>>
        lookup(built) ==
            [trie |-> built.trie, inserted |-> built.inserted,
             results |-> caught(searchAll(built.trie, ipToFind))]
    IN lookup(populate(NewTrie, <<>>, ranges, 1))

-----------------------------------------------------------------------------
(* State machine *)

NoOp == [op |-> "none", arg |-> "", ok |-> TRUE, result |-> <<>>]

Init ==
    /\ trie = NewTrie
    /\ log = <<>>
    /\ lastOp = NoOp
    /\ ipRanges = <<>>

\* trie.insert(cidr, data) returns normally
InsertOk(cidr, data) ==
    LET returns(r) ==
            /\ r.ok
            /\ trie' = r.trie
            /\ log' = Append(log, [cidr |-> cidr, data |-> data])
            /\ lastOp' = [op |-> "insert", arg |-> cidr, ok |-> TRUE,
                          result |-> <<>>]
            /\ UNCHANGED ipRanges
    IN /\ Len(log) < MaxInserts
       /\ returns(insert(trie, cidr, data))

\* trie.insert(cidr, data) throws
InsertThrows(cidr, data) ==
    LET throws(r) ==
            /\ ~r.ok
            /\ trie' = r.trie
            /\ lastOp' = [op |-> "insert", arg |-> cidr, ok |-> FALSE,
                          result |-> <<>>]
            /\ UNCHANGED <<log, ipRanges>>
    IN throws(insert(trie, cidr, data))

\* trie.searchAll(ip) returns its matches or throws
Search(ip) ==
    LET returns(r) ==
            /\ lastOp' = [op |-> "search", arg |-> ip, ok |-> r.ok,
                          result |-> r.matches]
            /\ UNCHANGED <<trie, log, ipRanges>>
    IN returns(searchAll(trie, ip))

Next ==
    \/ \E cidr \in CidrInputs, data \in DataInputs : InsertOk(cidr, data)
    \/ \E cidr \in CidrInputs : InsertThrows(cidr, AnyData)
    \/ \E ip \in IpInputs : Search(ip)

Spec == Init /\ [][Next]_vars

\* The driver: the arguments of a call are drawn first, then the call runs.
DriverInit ==
    /\ trie = NewTrie
    /\ log = <<>>
    /\ ipRanges \in RangeLists
    /\ \E ipToFind \in IpInputs :
           lastOp = [op |-> "call", arg |-> ipToFind, ok |-> TRUE, result |-> <<>>]

\* findAllIpsInTrie(ipRanges, ipToFind) builds a fresh trie and returns.
\* The trie it built and the pairs it inserted are kept for inspection.
FindAll ==
    LET returns(r) ==
            /\ trie' = r.trie
            /\ log' = r.inserted
            /\ lastOp' = [op |-> "find", arg |-> lastOp.arg, ok |-> TRUE,
                          result |-> r.results]
            /\ UNCHANGED ipRanges
    IN /\ lastOp.op = "call"
       /\ returns(findAllIpsInTrie(ipRanges, lastOp.arg))

DriverNext == FindAll

DriverSpec == DriverInit /\ [][DriverNext]_vars

-----------------------------------------------------------------------------
(* Vocabulary of the properties *)

\* Well-formed in the sense of the specification: a field "is an integer" when
\* it is a non-empty string of decimal digits.
IsDecimalInteger(s) == Len(s) > 0 /\ \A i \in 1..Len(s) : CharAt(s, i) \in Digits

RECURSIVE DecimalValue(_)
DecimalValue(s) ==
    IF Len(s) = 0 THEN 0
    ELSE 10 * DecimalValue(SubSeq(s, 1, Len(s) - 1)) + DigitValue(CharAt(s, Len(s)))

IsIntegerIn(s, lo, hi) ==
    IsDecimalInteger(s) /\ DecimalValue(s) >= lo /\ DecimalValue(s) <= hi

WellFormedAddress(ip) ==
    LET fields == split(ip, ".") IN
    /\ Len(fields) = 4
    /\ \A i \in 1..Len(fields) : IsIntegerIn(fields[i], 0, 255)

WellFormedCidr(cidr) ==
    LET fields == split(cidr, "/") IN
    /\ Len(fields) = 2
    /\ WellFormedAddress(fields[1])
    /\ IsIntegerIn(fields[2], 0, 32)

\* the number of levels below the root at which an accepted CIDR is stored:
\* the least integer that is not less than its prefix length
Depth(cidr) ==
    LET ceiling(p) == (p.num + p.den - 1) \div p.den
    IN ceiling(parseCIDR(cidr).prefixLength)

\* the first Depth(cidr) bits of the encoded base address of an accepted CIDR
PrefixOf(cidr) == SubSeq(ipToBinary(parseCIDR(cidr).ip).value, 1, Depth(cidr))

IsPrefix(a, b) == Len(a) <= Len(b) /\ SubSeq(b, 1, Len(a)) = a
IsStrictPrefix(a, b) == Len(a) < Len(b) /\ SubSeq(b, 1, Len(a)) = a

\* the address ip, accepted by ipToBinary, lies in the accepted CIDR
Contains(cidr, ip) == IsPrefix(PrefixOf(cidr), ipToBinary(ip).value)

\* the data of a sequence of logged inserts, in order
DataOf(entries) == [k \in 1..Len(entries) |-> entries[k].data]

\* a occurs in b as a (not necessarily contiguous) subsequence
RECURSIVE IsSubsequence(_, _)
IsSubsequence(a, b) ==
    IF Len(a) = 0 THEN TRUE
    ELSE IF Len(b) = 0 THEN FALSE
    ELSE IF Head(a) = Head(b) THEN IsSubsequence(Tail(a), Tail(b))
         ELSE IsSubsequence(a, Tail(b))

Count(seq, x) == Cardinality({k \in 1..Len(seq) : seq[k] = x})

SearchReturned == lastOp.op = "search" /\ lastOp.ok

-----------------------------------------------------------------------------
(* Properties *)

\* C1 (as claimed): once records are stored under prefix length 0, every
\* searchAll of a valid address returns them, ahead of every record of a
\* longer prefix: the result starts with the root's records.
C1_DepthZeroFirst ==
    (lastOp.op = "search" /\ WellFormedAddress(lastOp.arg)) =>
        LET atRoot == DataOf(SelectSeq(log, LAMBDA e : Depth(e.cidr) = 0)) IN
        /\ lastOp.ok
        /\ Len(atRoot) <= Len(lastOp.result)
        /\ SubSeq(lastOp.result, 1, Len(atRoot)) = atRoot

\* C2 (as claimed): when A's prefix is a strict prefix of B's and the queried
\* address lies in B, the result holds A's record at an earlier position
\* than B's record.
C2_ContainmentMonotonic ==
    SearchReturned =>
        \A i, j \in 1..Len(log) :
            (/\ IsStrictPrefix(PrefixOf(log[i].cidr), PrefixOf(log[j].cidr))
             /\ Contains(log[j].cidr, lastOp.arg))
            => \E a, b \in 1..Len(lastOp.result) :
                   /\ a < b
                   /\ lastOp.result[a] = log[i].data
                   /\ lastOp.result[b] = log[j].data

\* C3: every record searchAll returns was inserted under a CIDR that contains
\* the queried address, no more often than it was so inserted; a search of an
\* address that ipToBinary accepts returns normally, with the empty sequence
\* when no inserted CIDR contains the address.
C3_NoFalseMatches ==
    lastOp.op = "search" =>
        /\ lastOp.ok = ipToBinary(lastOp.arg).ok
        /\ lastOp.ok =>
              LET containing ==
                      DataOf(SelectSeq(log, LAMBDA e : Contains(e.cidr, lastOp.arg)))
              IN /\ \A k \in 1..Len(lastOp.result) :
                        Count(lastOp.result, lastOp.result[k])
                            <= Count(containing, lastOp.result[k])
                 /\ (containing = <<>>) => (lastOp.result = <<>>)

\* C3 witness: only 10.0.0.0/8 is inserted and searchAll("11.0.0.0") has
\* returned the empty sequence.
C3_Witness ==
    /\ SearchReturned
    /\ lastOp.arg = "11.0.0.0"
    /\ lastOp.result = <<>>
    /\ Len(log) = 1
    /\ log[1].cidr = "10.0.0.0/8"

\* C4 (as claimed): the k records inserted under one prefix are all returned,
\* as k entries in insertion order, by every search of an address in it.
C4_MultiplicityPreserved ==
    SearchReturned =>
        \A i \in 1..Len(log) :
            Contains(log[i].cidr, lastOp.arg) =>
                IsSubsequence(
                    DataOf(SelectSeq(log,
                        LAMBDA e : /\ Depth(e.cidr) = Depth(log[i].cidr)
                                   /\ PrefixOf(e.cidr) = PrefixOf(log[i].cidr))),
                    lastOp.result)

\* C5 (as claimed): a call of insert with a malformed CIDR (the number of
\* '/'-fields is not 2, the prefix length is an integer outside [0,32], or
\* the address part is not a well-formed address) fails and leaves the trie
\* as it was.
PrefixOutsideRange(s) ==
    \/ IsDecimalInteger(s) /\ DecimalValue(s) > 32
    \/ /\ Len(s) > 1
       /\ CharAt(s, 1) = "-"
       /\ IsDecimalInteger(SubSeq(s, 2, Len(s)))
       /\ DecimalValue(SubSeq(s, 2, Len(s))) > 0

MalformedCidr(cidr) ==
    LET fields == split(cidr, "/") IN
    \/ Len(fields) # 2
    \/ /\ Len(fields) = 2
       /\ PrefixOutsideRange(fields[2]) \/ ~WellFormedAddress(fields[1])

C5_MalformedInsertFails ==
    [][(lastOp'.op = "insert" /\ MalformedCidr(lastOp'.arg))
          => (~lastOp'.ok /\ trie' = trie /\ log' = log)]_vars

\* C6 (as claimed): searchAll of a string that is not a well-formed address
\* ends in a failure, and searchAll of a well-formed address that no inserted
\* CIDR contains returns the empty sequence.
C6_MalformedQueryFails ==
    lastOp.op = "search" =>
        /\ ~WellFormedAddress(lastOp.arg) => ~lastOp.ok
        /\ (/\ WellFormedAddress(lastOp.arg)
            /\ \A i \in 1..Len(log) : ~Contains(log[i].cidr, lastOp.arg))
           => (lastOp.ok /\ lastOp.result = <<>>)

\* the trie built by inserting the logged pairs entries[i], entries[i+1], ...
RECURSIVE InsertAll(_, _, _)
InsertAll(t, entries, i) ==
    IF i > Len(entries) THEN t
    ELSE LET after(r) == IF r.ok THEN InsertAll(r.trie, entries, i + 1)
                         ELSE InsertAll(t, entries, i + 1)
         IN after(insert(t, entries[i].cidr, entries[i].data))

Orders(n) ==
    {f \in [1..n -> 1..n] : \A a, b \in 1..n : a # b => f[a] # f[b]}

\* the order f of the logged inserts keeps the order of those at one node
KeepsNodeOrder(f) ==
    \A a, b \in DOMAIN f :
        (a < b /\ PrefixOf(log[f[a]].cidr) = PrefixOf(log[f[b]].cidr))
        => f[a] < f[b]

C8_PrefixLengthIsInteger ==
    (lastOp.op = "insert" /\ lastOp.ok) =>
        LET fields == split(lastOp.arg, "/") IN
        /\ Len(fields) = 2
        /\ IsIntegerIn(fields[2], 0, 32)
        /\ LET node == SubSeq(ipToBinary(fields[1]).value, 1,
                              DecimalValue(fields[2]))
           IN /\ node \in DOMAIN trie
              /\ Len(trie[node]) > 0
              /\ trie[node][Len(trie[node])] = log[Len(log)].data

\* two accepted CIDRs with equal prefix lengths whose base addresses agree on
\* the bits of the prefix
SamePrefix(c1, c2) ==
    LET same(p1, p2) ==
            /\ p1.ok
            /\ p2.ok
            /\ p1.prefixLength.num * p2.prefixLength.den
                 = p2.prefixLength.num * p1.prefixLength.den
            /\ PrefixOf(c1) = PrefixOf(c2)
    IN same(parseCIDR(c1), parseCIDR(c2))

\* C9: an insert under a CIDR changes the trie exactly as the insert of the
\* same record under any CIDR of the same prefix length that agrees with it
\* on the prefix bits would: the same nodes are created and the record is at
\* the same node, so that every later search returns the same on both.
C9_HostBitsIgnored ==
    [][(lastOp'.op = "insert" /\ lastOp'.ok) =>
          \A c \in CidrInputs :
              SamePrefix(lastOp'.arg, c) =>
                  insert(trie, c, log'[Len(log')].data).trie = trie']_vars

\* C9 witness: 10.1.2.3/8 was inserted after 10.0.0.0/8 and both records are
\* at the node of the 8 bits of 10.
C9_Witness ==
    /\ lastOp.op = "insert"
    /\ lastOp.ok
    /\ lastOp.arg = "10.1.2.3/8"
    /\ Len(log) = 2
    /\ log[1].cidr = "10.0.0.0/8"
    /\ trie["00001010"] = <<log[1].data, log[2].data>>

\* C10 (as claimed): for a valid address, findAllIpsInTrie returns what
\* searchAll returns on the trie built, in order, from the well-formed
\* ranges alone.
C10_DriverSkipsMalformed ==
    (lastOp.op = "find" /\ WellFormedAddress(lastOp.arg)) =>
        LET wellFormed ==
                SelectSeq(ipRanges, LAMBDA r : WellFormedCidr(r.ipRange))
            entries == [k \in 1..Len(wellFormed) |->
                           [cidr |-> wellFormed[k].ipRange,
                            data |-> rangeData(wellFormed[k])]]
        IN lastOp.result
               = searchAll(InsertAll(NewTrie, entries, 1), lastOp.arg).matches

-----------------------------------------------------------------------------
(* What the code does guarantee where a property above fails *)

\* The records stored at the root are the only ones a search misses: the
\* result of a search is exactly the records of the inserted CIDRs of depth
\* 1 or more that contain the address, shallowest first, and in insertion
\* order at one depth.
RECURSIVE ByDepth(_, _)
ByDepth(ip, d) ==
    IF d > AddrBits THEN <<>>
    ELSE DataOf(SelectSeq(log, LAMBDA e : Depth(e.cidr) = d
                                          /\ Contains(e.cidr, ip)))
         \o ByDepth(ip, d + 1)

SearchSkipsOnlyTheRoot ==
    SearchReturned => lastOp.result = ByDepth(lastOp.arg, 1)

\* A call of insert that throws changes nothing.
ThrownInsertChangesNothing ==
    [][(lastOp'.op = "insert" /\ ~lastOp'.ok) => (trie' = trie /\ log' = log)]_vars

\* insert and searchAll throw exactly when parseCIDR and ipToBinary do.
CallsThrowAsTheParsersDo ==
    /\ lastOp.op = "insert" => (lastOp.ok = parseCIDR(lastOp.arg).ok)
    /\ lastOp.op = "search" => (lastOp.ok = ipToBinary(lastOp.arg).ok)

\* The driver returns what searchAll returns on the trie built, in order,
\* from the ranges that parseCIDR accepts.
DriverSkipsWhatInsertRejects ==
    lastOp.op = "find" =>
        LET accepted == SelectSeq(ipRanges, LAMBDA r : parseCIDR(r.ipRange).ok)
            entries == [k \in 1..Len(accepted) |->
                           [cidr |-> accepted[k].ipRange,
                            data |-> rangeData(accepted[k])]]
            expected == searchAll(InsertAll(NewTrie, entries, 1), lastOp.arg)
        IN /\ log = entries
           /\ lastOp.result = IF expected.ok THEN expected.matches ELSE <<>>

====
